---- MODULE Spec2Model ----
(***************************************************************************)
(* Model of wagtail_vector_index/ai_utils/backends/base.py: the resolution *)
(* of a backend Config from a settings mapping (BaseConfig.from_settings,  *)
(* BaseEmbeddingConfig.from_settings and their get_* class methods) and    *)
(* the operations of a Backend holding the Config.                         *)
(***************************************************************************)
EXTENDS Integers, Sequences, FiniteSets, TLC

\* ------------------------------------------------------------------ bounds

\* Integer overrides of the settings mapping range over 0..MaxOverride.
MaxOverride == 1
\* At most MaxCalls length calculator instances are constructed.
MaxCalls == 2
\* At most MaxAssign attribute assignments are made on the Config.
MaxAssign == 1

\* ------------------------------------------------------------ Python values

\* A Python value: kind is its type, num its number (for a float, in tenths),
\* text its characters (for a str).  "absent" is a key missing from a mapping.
PyVal(k, n, t) == [kind |-> k, num |-> n, text |-> t]
IntV(n) == PyVal("int", n, <<>>)
FloatV(tenths) == PyVal("float", tenths, <<>>)
StrV(s) == PyVal("str", 0, s)
ListV == PyVal("list", 0, <<>>)
None == PyVal("none", 0, <<>>)
Absent == PyVal("absent", 0, <<>>)

Digits == <<"0", "1", "2", "3", "4", "5", "6", "7", "8", "9">>
IsDigit(c) == \E i \in 1..10 : Digits[i] = c
DigitVal(c) == (CHOOSE i \in 1..10 : Digits[i] = c) - 1
IsSpace(c) == c \in {" ", "\t", "\n"}

RECURSIVE LStrip(_)
LStrip(s) == IF s # <<>> /\ IsSpace(Head(s)) THEN LStrip(Tail(s)) ELSE s

RECURSIVE RStrip(_)
RStrip(s) ==
    IF s # <<>> /\ IsSpace(s[Len(s)]) THEN RStrip(SubSeq(s, 1, Len(s) - 1)) ELSE s

\* The digits of an integer literal: digits, with single underscores between.
RECURSIVE IsDigitBody(_)
IsDigitBody(s) ==
    /\ s # <<>>
    /\ IsDigit(Head(s))
    /\ \/ Len(s) = 1
       \/ IsDigitBody(Tail(s))
       \/ Len(s) >= 3 /\ s[2] = "_" /\ IsDigitBody(SubSeq(s, 3, Len(s)))

RECURSIVE DigitsValue(_, _)
DigitsValue(s, acc) ==
    IF s = <<>> THEN acc
    ELSE IF Head(s) = "_" THEN DigitsValue(Tail(s), acc)
    ELSE DigitsValue(Tail(s), 10 * acc + DigitVal(Head(s)))

\* int(str): surrounding whitespace stripped, an optional sign, then the
\* digits; anything else is a ValueError.
ParseInt(s) ==
    LET t == RStrip(LStrip(s))
        signed == t # <<>> /\ Head(t) \in {"+", "-"}
        body == IF signed THEN Tail(t) ELSE t
    IN  IF IsDigitBody(body)
        THEN [exc |-> "none",
              val |-> IntV(IF signed /\ Head(t) = "-"
                           THEN 0 - DigitsValue(body, 0)
                           ELSE DigitsValue(body, 0))]
        ELSE [exc |-> "ValueError", val |-> None]

\* float -> int truncates toward zero.
Trunc(tenths) == IF tenths >= 0 THEN tenths \div 10 ELSE 0 - ((0 - tenths) \div 10)

\* The builtin int(custom_value): the converted value, or the exception.
PyInt(v) ==
    CASE v.kind = "int" -> [exc |-> "none", val |-> v]
      [] v.kind = "float" -> [exc |-> "none", val |-> IntV(Trunc(v.num))]
      [] v.kind = "str" -> ParseInt(v.text)
      [] OTHER -> [exc |-> "TypeError", val |-> None]

\* mapping.get(key): None for a missing key.
DictGet(v) == IF v = Absent THEN None ELSE v

\* ------------------------------------------------------------------ inputs

ModelIds == {"gpt-4", "text-embedding-ada-002", "dims-only-model", "unknown-model"}

Str8000 == <<"8", "0", "0", "0">>
StrAbc == <<"a", "b", "c">>
StrPadded == <<" ", "-", "7", " ">>

\* The values a settings mapping may hold under an override key.
OverrideValues ==
    {Absent, None, ListV, FloatV(25), StrV(Str8000), StrV(StrAbc), StrV(StrPadded)}
    \cup {IntV(n) : n \in 0..MaxOverride}

\* The values a caller may pass as the embedding_output_dimensions keyword.
KeywordValues == {Absent, IntV(1536), StrV(StrAbc)}

ConfigClasses == {"BaseConfig", "BaseEmbeddingConfig"}
TextSplitterClasses == {"TextSplitter"}
LengthCalculatorClasses == {"LengthCalculator"}

SettingsMappings ==
    [MODEL_ID : ModelIds,
     TOKEN_LIMIT : OverrideValues,
     CHUNK_OVERLAP_CHARACTERS : OverrideValues,
     EMBEDDING_OUTPUT_DIMENSIONS : OverrideValues]

\* ------------------------------------------------- default lookups (tokens,
\* embeddings modules)

TokenLimitModels == {"gpt-4", "text-embedding-ada-002"}
DefaultTokenLimit(model_id) == IF model_id = "gpt-4" THEN 8192 ELSE 8191

EmbeddingDimensionModels == {"text-embedding-ada-002", "dims-only-model"}
DefaultEmbeddingDimensions(model_id) ==
    IF model_id = "text-embedding-ada-002" THEN 1536 ELSE 768

DefaultChunkOverlap == 100

\* tokens.get_default_token_limit: the table entry, or NoTokenLimitFound.
get_default_token_limit(model_id) ==
    IF model_id \in TokenLimitModels
    THEN [exc |-> "none", val |-> IntV(DefaultTokenLimit(model_id))]
    ELSE [exc |-> "NoTokenLimitFound", val |-> None]

\* tokens.get_default_chunk_overlap: one value for every model.
get_default_chunk_overlap == [exc |-> "none", val |-> IntV(DefaultChunkOverlap)]

\* embeddings.get_default_embedding_output_dimensions: the table entry, or
\* EmbeddingOutputDimensionsNotFound.
get_default_embedding_output_dimensions(model_id) ==
    IF model_id \in EmbeddingDimensionModels
    THEN [exc |-> "none", val |-> IntV(DefaultEmbeddingDimensions(model_id))]
    ELSE [exc |-> "EmbeddingOutputDimensionsNotFound", val |-> None]

\* ------------------------------------------------------------------ errors

\* A raised exception: its type, the message's shape, and the field, model
\* id and value type the message names ("" when it names none).
Exc(type, msg, fld, model_id, value_type) ==
    [type |-> type, msg |-> msg, field |-> fld, model_id |-> model_id,
     value_type |-> value_type]
NoError == Exc("none", "", "", "", "")

\* '"<field>" is not an "int", it is a "<type>".'
NotAnInt(fld, custom_value) ==
    Exc("ImproperlyConfigured", "not_an_int", fld, "", custom_value.kind)
\* '"<field>" is not configured for model "<model_id>".'
NotConfigured(fld, model_id) ==
    Exc("ImproperlyConfigured", "not_configured", fld, model_id, "")
\* An exception of int() that the except clause does not catch.
Uncaught(type) == Exc(type, "int", "", "", "")

\* The result of a get_* class method: the value returned or the exception
\* raised, and whether the default lookup was called.
Returned(val, looked) == [err |-> NoError, val |-> val, looked |-> looked]
Raised(err, looked) == [err |-> err, val |-> None, looked |-> looked]

\* ------------------------------------------------- the get_* class methods

\* Python truthiness of a value.
Truthy(v) ==
    CASE v.kind \in {"none", "absent"} -> FALSE
      [] v.kind \in {"int", "float"} -> v.num # 0
      [] v.kind = "str" -> v.text # <<>>
      [] OTHER -> TRUE

\* get_token_limit with "if custom_value:" for "if custom_value is not None:".
get_token_limit_truthy(model_id, custom_value) ==
    IF Truthy(custom_value)
    THEN LET r == PyInt(custom_value)
         IN  CASE r.exc = "none" -> Returned(r.val, FALSE)
               [] r.exc = "ValueError" ->
                    Raised(NotAnInt("TOKEN_LIMIT", custom_value), FALSE)
               [] OTHER -> Raised(Uncaught(r.exc), FALSE)
    ELSE LET d == get_default_token_limit(model_id)
         IN  IF d.exc = "none"
             THEN Returned(d.val, TRUE)
             ELSE Raised(NotConfigured("TOKEN_LIMIT", model_id), TRUE)

\* BaseConfig.get_token_limit
get_token_limit(model_id, custom_value) ==
    IF custom_value # None
    THEN LET r == PyInt(custom_value)
         IN  CASE r.exc = "none" -> Returned(r.val, FALSE)
               [] r.exc = "ValueError" ->
                    Raised(NotAnInt("TOKEN_LIMIT", custom_value), FALSE)
               [] OTHER -> Raised(Uncaught(r.exc), FALSE)
    ELSE LET d == get_default_token_limit(model_id)
         IN  IF d.exc = "none"
             THEN Returned(d.val, TRUE)
             ELSE Raised(NotConfigured("TOKEN_LIMIT", model_id), TRUE)

\* get_chunk_overlap falling back to tokens.get_default_token_limit.
get_chunk_overlap_token_default(model_id, custom_value) ==
    IF custom_value # None
    THEN LET r == PyInt(custom_value)
         IN  CASE r.exc = "none" -> Returned(r.val, FALSE)
               [] r.exc = "ValueError" ->
                    Raised(NotAnInt("CHUNK_OVERLAP_CHARACTERS", custom_value), FALSE)
               [] OTHER -> Raised(Uncaught(r.exc), FALSE)
    ELSE LET d == get_default_token_limit(model_id)
         IN  IF d.exc = "none" THEN Returned(d.val, TRUE)
                               ELSE Raised(Uncaught(d.exc), TRUE)

\* BaseConfig.get_chunk_overlap
get_chunk_overlap(model_id, custom_value) ==
    IF custom_value # None
    THEN LET r == PyInt(custom_value)
         IN  CASE r.exc = "none" -> Returned(r.val, FALSE)
               [] r.exc = "ValueError" ->
                    Raised(NotAnInt("CHUNK_OVERLAP_CHARACTERS", custom_value), FALSE)
               [] OTHER -> Raised(Uncaught(r.exc), FALSE)
    ELSE Returned(get_default_chunk_overlap.val, TRUE)

\* get_embedding_output_dimensions without the except clause of the lookup.
get_embedding_output_dimensions_uncaught(model_id, custom_value) ==
    IF custom_value # None
    THEN LET r == PyInt(custom_value)
         IN  CASE r.exc = "none" -> Returned(r.val, FALSE)
               [] r.exc = "ValueError" ->
                    Raised(NotAnInt("EMBEDDING_OUTPUT_DIMENSIONS", custom_value), FALSE)
               [] OTHER -> Raised(Uncaught(r.exc), FALSE)
    ELSE LET d == get_default_embedding_output_dimensions(model_id)
         IN  IF d.exc = "none" THEN Returned(d.val, TRUE)
                               ELSE Raised(Uncaught(d.exc), TRUE)

\* BaseEmbeddingConfig.get_embedding_output_dimensions
get_embedding_output_dimensions(model_id, custom_value) ==
    IF custom_value # None
    THEN LET r == PyInt(custom_value)
         IN  CASE r.exc = "none" -> Returned(r.val, FALSE)
               [] r.exc = "ValueError" ->
                    Raised(NotAnInt("EMBEDDING_OUTPUT_DIMENSIONS", custom_value), FALSE)
               [] OTHER -> Raised(Uncaught(r.exc), FALSE)
    ELSE LET d == get_default_embedding_output_dimensions(model_id)
         IN  IF d.exc = "none"
             THEN Returned(d.val, TRUE)
             ELSE Raised(NotConfigured("EMBEDDING_OUTPUT_DIMENSIONS", model_id), TRUE)

\* kwargs.setdefault("embedding_output_dimensions", value): a keyword the
\* caller passed is kept.
SetDefault(kw, value) == IF kw = Absent THEN value ELSE kw

\* ------------------------------------------------------------------- state

VARIABLES
    pc,                  \* where the from_settings call stands
    cls,                 \* the class from_settings was called on
    settings,            \* the settings mapping passed as config
    text_splitter_class, \* keyword argument of from_settings
    text_splitter_length_calculator_class,  \* keyword argument of from_settings
    keyword,             \* embedding_output_dimensions as the caller passed it
    kwargs,              \* the embedding_output_dimensions entry of **kwargs
    embedding_output_dimensions,  \* local of BaseEmbeddingConfig.from_settings
    token_limit,         \* local of BaseConfig.from_settings
    chunk_overlap_characters,     \* local of BaseConfig.from_settings
    error,               \* the exception from_settings raised
    resolved,            \* the get_* methods called so far, in order
    lookups,             \* the default lookups called so far
    config,              \* the Config object
    backend,             \* the Backend object
    ret,                 \* what the last Backend operation returned
    instances,           \* length calculator instances constructed so far
    assigns,             \* attribute assignments made on the Config so far
    lastOp               \* the operation that completed last

frame == <<cls, settings, text_splitter_class, text_splitter_length_calculator_class,
           keyword>>
locals == <<kwargs, embedding_output_dimensions, token_limit, chunk_overlap_characters>>
trace == <<resolved, lookups>>
results == <<ret, instances>>
vars == <<pc, frame, locals, error, trace, config, backend, results, assigns, lastOp>>

\* A Config: the dataclass fields (embedding_output_dimensions is Absent on
\* a BaseConfig, which has no such field).
Config(c, coc, mid, tsc, tslcc, tl, eod) ==
    [cls |-> c,
     chunk_overlap_characters |-> coc,
     model_id |-> mid,
     text_splitter_class |-> tsc,
     text_splitter_length_calculator_class |-> tslcc,
     token_limit |-> tl,
     embedding_output_dimensions |-> eod]
NoConfig == Config("none", Absent, "", "", "", Absent, Absent)

Backend(c, ref) == [cls |-> c, config |-> ref]
NoBackend == Backend("none", "none")


Init ==
    /\ pc = "idle"
    /\ cls = "none"
    /\ settings = [MODEL_ID |-> "", TOKEN_LIMIT |-> Absent,
                   CHUNK_OVERLAP_CHARACTERS |-> Absent,
                   EMBEDDING_OUTPUT_DIMENSIONS |-> Absent]
    /\ text_splitter_class = ""
    /\ text_splitter_length_calculator_class = ""
    /\ keyword = Absent
    /\ kwargs = Absent
    /\ embedding_output_dimensions = Absent
    /\ token_limit = Absent
    /\ chunk_overlap_characters = Absent
    /\ error = NoError
    /\ resolved = <<>>
    /\ lookups = {}
    /\ config = NoConfig
    /\ backend = NoBackend
    /\ ret = None
    /\ instances = 0
    /\ assigns = 0
    /\ lastOp = "none"

\* ------------------------------------------------------- Config resolution

\* A caller calls c.from_settings(s, text_splitter_class=tsc,
\* text_splitter_length_calculator_class=tslcc[, embedding_output_dimensions=kw]).
CallFromSettings(c, s, tsc, tslcc, kw) ==
    /\ pc = "idle"
    /\ cls' = c
    /\ settings' = s
    /\ text_splitter_class' = tsc
    /\ text_splitter_length_calculator_class' = tslcc
    /\ keyword' = kw
    /\ kwargs' = kw
    /\ pc' = IF c = "BaseEmbeddingConfig" THEN "embedding_from_settings"
                                          ELSE "from_settings"
    /\ UNCHANGED <<embedding_output_dimensions, token_limit, chunk_overlap_characters,
                   error, trace, config, backend, results, assigns, lastOp>>

\* EmbeddingFromSettings resolving the dimensions with cls.get_token_limit.
EmbeddingFromSettings_token_limit ==
    /\ pc = "embedding_from_settings"
    /\ LET r == get_token_limit(
                    settings.MODEL_ID, DictGet(settings.EMBEDDING_OUTPUT_DIMENSIONS))
       IN  /\ resolved' = Append(resolved, "EMBEDDING_OUTPUT_DIMENSIONS")
           /\ lookups' = IF r.looked THEN lookups \cup {"EMBEDDING_OUTPUT_DIMENSIONS"}
                                     ELSE lookups
           /\ IF r.err = NoError
              THEN /\ embedding_output_dimensions' = r.val
                   /\ kwargs' = SetDefault(kwargs, r.val)
                   /\ pc' = "from_settings"
                   /\ UNCHANGED <<error, lastOp>>
              ELSE /\ error' = r.err
                   /\ pc' = "raised"
                   /\ lastOp' = "from_settings"
                   /\ UNCHANGED <<embedding_output_dimensions, kwargs>>
    /\ UNCHANGED <<frame, token_limit, chunk_overlap_characters, config, backend,
                   results, assigns>>

\* BaseEmbeddingConfig.from_settings up to its super().from_settings call.
EmbeddingFromSettings ==
    /\ pc = "embedding_from_settings"
    /\ LET r == get_embedding_output_dimensions(
                    settings.MODEL_ID, DictGet(settings.EMBEDDING_OUTPUT_DIMENSIONS))
       IN  /\ resolved' = Append(resolved, "EMBEDDING_OUTPUT_DIMENSIONS")
           /\ lookups' = IF r.looked THEN lookups \cup {"EMBEDDING_OUTPUT_DIMENSIONS"}
                                     ELSE lookups
           /\ IF r.err = NoError
              THEN /\ embedding_output_dimensions' = r.val
                   /\ kwargs' = SetDefault(kwargs, r.val)
                   /\ pc' = "from_settings"
                   /\ UNCHANGED <<error, lastOp>>
              ELSE /\ error' = r.err
                   /\ pc' = "raised"
                   /\ lastOp' = "from_settings"
                   /\ UNCHANGED <<embedding_output_dimensions, kwargs>>
    /\ UNCHANGED <<frame, token_limit, chunk_overlap_characters, config, backend,
                   results, assigns>>

\* FromSettingsTokenLimit swallowing the exception of get_token_limit.
FromSettingsTokenLimit_swallow ==
    /\ pc = "from_settings"
    /\ LET r == get_token_limit(settings.MODEL_ID, DictGet(settings.TOKEN_LIMIT))
       IN  /\ resolved' = Append(resolved, "TOKEN_LIMIT")
           /\ lookups' = IF r.looked THEN lookups \cup {"TOKEN_LIMIT"} ELSE lookups
           /\ token_limit' = r.val
           /\ pc' = "from_settings_chunk_overlap"
           /\ UNCHANGED <<error, lastOp>>
    /\ UNCHANGED <<frame, kwargs, embedding_output_dimensions,
                   chunk_overlap_characters, config, backend, results, assigns>>

\* BaseConfig.from_settings: token_limit = cls.get_token_limit(...)
FromSettingsTokenLimit ==
    /\ pc = "from_settings"
    /\ LET r == get_token_limit(settings.MODEL_ID, DictGet(settings.TOKEN_LIMIT))
       IN  /\ resolved' = Append(resolved, "TOKEN_LIMIT")
           /\ lookups' = IF r.looked THEN lookups \cup {"TOKEN_LIMIT"} ELSE lookups
           /\ IF r.err = NoError
              THEN /\ token_limit' = r.val
                   /\ pc' = "from_settings_chunk_overlap"
                   /\ UNCHANGED <<error, lastOp>>
              ELSE /\ error' = r.err
                   /\ pc' = "raised"
                   /\ lastOp' = "from_settings"
                   /\ UNCHANGED token_limit
    /\ UNCHANGED <<frame, kwargs, embedding_output_dimensions,
                   chunk_overlap_characters, config, backend, results, assigns>>

\* BaseConfig.from_settings: chunk_overlap_characters = cls.get_chunk_overlap(...)
FromSettingsChunkOverlap ==
    /\ pc = "from_settings_chunk_overlap"
    /\ LET r == get_chunk_overlap(
                    settings.MODEL_ID, DictGet(settings.CHUNK_OVERLAP_CHARACTERS))
       IN  /\ resolved' = Append(resolved, "CHUNK_OVERLAP_CHARACTERS")
           /\ lookups' = IF r.looked THEN lookups \cup {"CHUNK_OVERLAP_CHARACTERS"}
                                     ELSE lookups
           /\ IF r.err = NoError
              THEN /\ chunk_overlap_characters' = r.val
                   /\ pc' = "from_settings_return"
                   /\ UNCHANGED <<error, lastOp>>
              ELSE /\ error' = r.err
                   /\ pc' = "raised"
                   /\ lastOp' = "from_settings"
                   /\ UNCHANGED chunk_overlap_characters
    /\ UNCHANGED <<frame, kwargs, embedding_output_dimensions, token_limit, config,
                   backend, results, assigns>>

\* BaseConfig.from_settings: return cls(..., **kwargs).  The dataclass
\* constructor of BaseConfig takes no embedding_output_dimensions keyword.
FromSettingsReturn ==
    /\ pc = "from_settings_return"
    /\ IF cls = "BaseConfig" /\ kwargs # Absent
       THEN /\ error' = Exc("TypeError", "unexpected_keyword",
                            "embedding_output_dimensions", "", "")
            /\ pc' = "raised"
            /\ UNCHANGED config
       ELSE /\ config' = Config(cls, chunk_overlap_characters, settings.MODEL_ID,
                                text_splitter_class,
                                text_splitter_length_calculator_class,
                                token_limit, kwargs)
            /\ pc' = "returned"
            /\ UNCHANGED error
    /\ lastOp' = "from_settings"
    /\ UNCHANGED <<frame, locals, trace, backend, results, assigns>>

\* --------------------------------------------------------- Config, Backend

\* The fields of the dataclass and the values an assignment may store.
AssignableFields == {"token_limit", "chunk_overlap_characters", "embedding_output_dimensions"}
AssignValues == {IntV(0), StrV(StrAbc)}

\* The dataclasses are declared without frozen=True: config.<f> = v stores v.
SetAttr(f, v) ==
    /\ config # NoConfig
    /\ assigns < MaxAssign
    /\ f = "embedding_output_dimensions" => config.cls = "BaseEmbeddingConfig"
    /\ config' = [config EXCEPT ![f] = v]
    /\ assigns' = assigns + 1
    /\ lastOp' = "setattr"
    /\ UNCHANGED <<pc, frame, locals, error, trace, backend, results>>

\* BaseBackend.__init__(config=config), on the backend class of the Config.
BackendInit ==
    /\ config # NoConfig
    /\ backend = NoBackend
    /\ backend' = Backend(IF config.cls = "BaseEmbeddingConfig"
                          THEN "BaseEmbeddingBackend" ELSE "BaseChatBackend",
                          "config")
    /\ lastOp' = "__init__"
    /\ UNCHANGED <<pc, frame, locals, error, trace, config, results, assigns>>

\* self.config of a Backend.
Deref(ref) == IF ref = "config" THEN config ELSE NoConfig

\* BaseBackend.get_splitter_length_calculator: the n-th instance constructed.
get_splitter_length_calculator(self, n) ==
    [cls |-> Deref(self.config).text_splitter_length_calculator_class, instance |-> n]

\* get_text_splitter with chunk_size and chunk_overlap exchanged.
get_text_splitter_swapped(self, n) ==
    [cls |-> Deref(self.config).text_splitter_class,
     chunk_size |-> Deref(self.config).chunk_overlap_characters,
     chunk_overlap |-> Deref(self.config).token_limit,
     length_function |->
        [cls |-> get_splitter_length_calculator(self, n).cls,
         instance |-> get_splitter_length_calculator(self, n).instance,
         method |-> "get_splitter_length"]]

\* BaseBackend.get_text_splitter, n being the calculator instance it constructs.
get_text_splitter(self, n) ==
    [cls |-> Deref(self.config).text_splitter_class,
     chunk_size |-> Deref(self.config).token_limit,
     chunk_overlap |-> Deref(self.config).chunk_overlap_characters,
     length_function |->
        [cls |-> get_splitter_length_calculator(self, n).cls,
         instance |-> get_splitter_length_calculator(self, n).instance,
         method |-> "get_splitter_length"]]

GetTextSplitter ==
    /\ backend # NoBackend
    /\ instances < MaxCalls
    /\ ret' = get_text_splitter(backend, instances + 1)
    /\ instances' = instances + 1
    /\ lastOp' = "get_text_splitter"
    /\ UNCHANGED <<pc, frame, locals, error, trace, config, backend, assigns>>

GetSplitterLengthCalculator ==
    /\ backend # NoBackend
    /\ instances < MaxCalls
    /\ ret' = get_splitter_length_calculator(backend, instances + 1)
    /\ instances' = instances + 1
    /\ lastOp' = "get_splitter_length_calculator"
    /\ UNCHANGED <<pc, frame, locals, error, trace, config, backend, assigns>>

\* BaseEmbeddingBackend.embedding_output_dimensions (a property).
EmbeddingOutputDimensions ==
    /\ backend.cls = "BaseEmbeddingBackend"
    /\ ret' = Deref(backend.config).embedding_output_dimensions
    /\ lastOp' = "embedding_output_dimensions"
    /\ UNCHANGED <<pc, frame, locals, error, trace, config, backend, instances,
                   assigns>>

\* ------------------------------------------------------------ specification

Next ==
    \/ /\ pc = "idle"
       /\ \E c \in ConfigClasses, s \in SettingsMappings, tsc \in TextSplitterClasses,
             tslcc \in LengthCalculatorClasses, kw \in KeywordValues :
               CallFromSettings(c, s, tsc, tslcc, kw)
    \/ EmbeddingFromSettings
    \/ FromSettingsTokenLimit
    \/ FromSettingsChunkOverlap
    \/ FromSettingsReturn
    \/ /\ config # NoConfig
       /\ \E f \in AssignableFields, v \in AssignValues : SetAttr(f, v)
    \/ BackendInit
    \/ GetTextSplitter
    \/ GetSplitterLengthCalculator
    \/ EmbeddingOutputDimensions

Spec == Init /\ [][Next]_vars

\* ------------------------------------------------------------- properties

EmbeddingKey == "EMBEDDING_OUTPUT_DIMENSIONS"

\* The override keys from_settings of class c resolves, in the order of the
\* calls in the source.
Order(c) ==
    IF c = "BaseEmbeddingConfig"
    THEN <<EmbeddingKey, "TOKEN_LIMIT", "CHUNK_OVERLAP_CHARACTERS">>
    ELSE <<"TOKEN_LIMIT", "CHUNK_OVERLAP_CHARACTERS">>
Keys(c) == {Order(c)[i] : i \in 1..Len(Order(c))}

\* The Config field an override key resolves to.
FieldOf(k) ==
    CASE k = "TOKEN_LIMIT" -> "token_limit"
      [] k = "CHUNK_OVERLAP_CHARACTERS" -> "chunk_overlap_characters"
      [] k = EmbeddingKey -> "embedding_output_dimensions"

\* The mapping omits the override: the key is missing, or holds None.
Omitted(k) == settings[k] \in {Absent, None}
\* The mapping supplies an integer under the key.
IntegerOverride(k) == settings[k].kind = "int"
\* The value under the key is there and int() does not convert it.
NotCoercible(k) == ~Omitted(k) /\ PyInt(settings[k]).exc # "none"

\* The models with a default registered for the key.  The chunk overlap has
\* one default for every model.
HasDefault(k, model_id) ==
    CASE k = "TOKEN_LIMIT" -> model_id \in TokenLimitModels
      [] k = EmbeddingKey -> model_id \in EmbeddingDimensionModels
      [] k = "CHUNK_OVERLAP_CHARACTERS" -> TRUE
DefaultOf(k, model_id) ==
    CASE k = "TOKEN_LIMIT" -> IntV(DefaultTokenLimit(model_id))
      [] k = EmbeddingKey -> IntV(DefaultEmbeddingDimensions(model_id))
      [] k = "CHUNK_OVERLAP_CHARACTERS" -> IntV(DefaultChunkOverlap)
\* The models with a default registered under their own id: no table holds
\* chunk overlaps by model.
HasRegisteredDefault(k, model_id) ==
    k # "CHUNK_OVERLAP_CHARACTERS" /\ HasDefault(k, model_id)

\* from_settings has just returned the Config / has raised.
AtReturn == pc = "returned" /\ lastOp = "from_settings"
AtRaise == pc = "raised"
Finished == pc \in {"returned", "raised"}

\* The override keys whose resolution must fail, and the first of them.
Invalid(k) == IF Omitted(k) THEN ~HasDefault(k, settings.MODEL_ID) ELSE NotCoercible(k)
FirstInvalid ==
    LET o == Order(cls)
        i == CHOOSE i \in 1..Len(o) :
                Invalid(o[i]) /\ \A j \in 1..(i - 1) : ~Invalid(o[j])
    IN  [key |-> o[i], prefix |-> SubSeq(o, 1, i)]

\* C1 as stated: when from_settings has returned, every field whose key holds
\* an integer override equals that override, and the default lookup of that
\* field was not called.
C1_Claim ==
    AtReturn =>
        \A k \in Keys(cls) :
            IntegerOverride(k) =>
                /\ config[FieldOf(k)] = settings[k]
                /\ k \notin lookups

\* C1, amended: when from_settings has returned, every field whose key holds
\* an integer override equals that override and the default lookup of that
\* field was not called, whatever is registered for the model; except that
\* embedding_output_dimensions equals the embedding_output_dimensions keyword
\* argument when the caller passed one.
C1_Amended ==
    AtReturn =>
        \A k \in Keys(cls) :
            IntegerOverride(k) =>
                /\ config[FieldOf(k)] =
                      IF k = EmbeddingKey /\ keyword # Absent THEN keyword
                                                              ELSE settings[k]
                /\ k \notin lookups

\* Integer overrides for all three fields of a model no table knows, resolved
\* without a keyword argument.
C1_Witness ==
    /\ AtReturn
    /\ cls = "BaseEmbeddingConfig"
    /\ keyword = Absent
    /\ settings.MODEL_ID = "unknown-model"
    /\ \A k \in Keys(cls) : IntegerOverride(k)
    /\ config.token_limit = settings.TOKEN_LIMIT

\* C2 as stated: when from_settings has returned, every field whose override
\* is omitted (key missing, or None) and whose model has a default equals
\* that default.
C2_Claim ==
    AtReturn =>
        \A k \in Keys(cls) :
            (Omitted(k) /\ HasDefault(k, settings.MODEL_ID)) =>
                config[FieldOf(k)] = DefaultOf(k, settings.MODEL_ID)

\* C2, amended: when from_settings has returned, every field whose override
\* is omitted and whose model has a default equals that default (the table
\* entry of MODEL_ID, or the chunk overlap default); except that
\* embedding_output_dimensions equals the embedding_output_dimensions keyword
\* argument when the caller passed one.
C2_Amended ==
    AtReturn =>
        \A k \in Keys(cls) :
            (Omitted(k) /\ HasDefault(k, settings.MODEL_ID)) =>
                config[FieldOf(k)] =
                    IF k = EmbeddingKey /\ keyword # Absent
                    THEN keyword
                    ELSE DefaultOf(k, settings.MODEL_ID)

\* All three overrides omitted, by a missing key and by None, for a model
\* with both table entries.
C2_Witness ==
    /\ AtReturn
    /\ cls = "BaseEmbeddingConfig"
    /\ keyword = Absent
    /\ settings.MODEL_ID = "text-embedding-ada-002"
    /\ settings.TOKEN_LIMIT = None
    /\ settings.CHUNK_OVERLAP_CHARACTERS = Absent
    /\ settings.EMBEDDING_OUTPUT_DIMENSIONS = None
    /\ config.token_limit = IntV(8191)
    /\ config.chunk_overlap_characters = IntV(100)
    /\ config.embedding_output_dimensions = IntV(1536)

Called(k) == \E i \in 1..Len(resolved) : resolved[i] = k

\* C3 as stated: for every key from_settings resolves (CHUNK_OVERLAP_CHARACTERS
\* among them) whose override is omitted and whose model has no default
\* registered, the get_* method of that key, once called, raises the
\* configuration error naming the key and the model id, and from_settings
\* ends by raising, with no Config.
C3_Claim ==
    \A k \in Keys(cls) :
        (Omitted(k) /\ ~HasRegisteredDefault(k, settings.MODEL_ID)) =>
            /\ Called(k) =>
                  (pc = "raised" /\ error = NotConfigured(k, settings.MODEL_ID))
            /\ Finished => (pc = "raised" /\ config = NoConfig)

\* C3, amended: for TOKEN_LIMIT and (embedding configs) EMBEDDING_OUTPUT_DIMENSIONS,
\* a mapping that omits the override of a model with no registered default
\* never yields a Config, and the get_* method of that key, once called (no
\* earlier key has failed), raises the configuration error naming the key and
\* the model id.  CHUNK_OVERLAP_CHARACTERS has no default by model: an omitted
\* override resolves to the one chunk overlap default and raises nothing.
C3_Amended ==
    /\ \A k \in Keys(cls) \ {"CHUNK_OVERLAP_CHARACTERS"} :
            (Omitted(k) /\ ~HasDefault(k, settings.MODEL_ID)) =>
                /\ pc # "returned"
                /\ config = NoConfig
                /\ Called(k) =>
                      /\ pc = "raised"
                      /\ error = NotConfigured(k, settings.MODEL_ID)
    /\ (Called("CHUNK_OVERLAP_CHARACTERS") /\ Omitted("CHUNK_OVERLAP_CHARACTERS")) =>
            /\ chunk_overlap_characters = IntV(DefaultChunkOverlap)
            /\ error.field # "CHUNK_OVERLAP_CHARACTERS"

\* The embedding dimensions resolve, then TOKEN_LIMIT is omitted for a model
\* without a token limit.
C3_Witness ==
    /\ pc = "raised"
    /\ cls = "BaseEmbeddingConfig"
    /\ settings.MODEL_ID = "dims-only-model"
    /\ settings.TOKEN_LIMIT = None
    /\ resolved = <<EmbeddingKey, "TOKEN_LIMIT">>
    /\ error = NotConfigured("TOKEN_LIMIT", "dims-only-model")
    /\ config = NoConfig

\* C4 as stated: the get_* method of a key whose value is present and not
\* coercible to an integer raises the configuration error naming the key; no
\* other error leaves from_settings for such a value.
C4_Claim ==
    \A k \in Keys(cls) :
        (Called(k) /\ NotCoercible(k)) =>
            /\ pc = "raised"
            /\ error = NotAnInt(k, settings[k])

\* What is true of C4: a str that is no integer literal (int() raises
\* ValueError) gives the configuration error naming the key.
C4_ValueErrorOnly ==
    \A k \in Keys(cls) :
        (Called(k) /\ NotCoercible(k) /\ settings[k].kind = "str") =>
            /\ pc = "raised"
            /\ error = NotAnInt(k, settings[k])

\* C5: resolution is atomic.  A Config exists only once from_settings has
\* returned; when it has raised there is none; and the Config it returns has
\* every field populated with the value resolved for it.
C5_Atomic ==
    /\ config # NoConfig => pc = "returned"
    /\ pc = "raised" => (config = NoConfig /\ error # NoError)
    /\ AtReturn =>
        /\ error = NoError
        /\ config.cls = cls
        /\ config.model_id = settings.MODEL_ID
        /\ config.text_splitter_class = text_splitter_class
        /\ config.text_splitter_length_calculator_class =
              text_splitter_length_calculator_class
        /\ config.token_limit =
              get_token_limit(settings.MODEL_ID, DictGet(settings.TOKEN_LIMIT)).val
        /\ config.token_limit.kind = "int"
        /\ config.chunk_overlap_characters =
              get_chunk_overlap(settings.MODEL_ID,
                                DictGet(settings.CHUNK_OVERLAP_CHARACTERS)).val
        /\ config.chunk_overlap_characters.kind = "int"
        /\ cls = "BaseEmbeddingConfig" =>
              /\ config.embedding_output_dimensions =
                    SetDefault(keyword,
                               get_embedding_output_dimensions(
                                   settings.MODEL_ID,
                                   DictGet(settings[EmbeddingKey])).val)
              /\ config.embedding_output_dimensions \notin {Absent, None}

\* Two fields have resolved when the third fails: nothing was constructed.
C5_Witness ==
    /\ pc = "raised"
    /\ cls = "BaseEmbeddingConfig"
    /\ Len(resolved) = 3
    /\ token_limit # Absent
    /\ embedding_output_dimensions # Absent
    /\ config = NoConfig

\* C6 as stated: once the Config exists, no step changes any of its fields.
C6_Claim == [][config # NoConfig => config' = config]_vars

\* What is true of C6: the operations of the Backend leave the Config as it is.
C6_BackendOnly ==
    [][(config # NoConfig /\ lastOp' # "setattr") => config' = config]_vars

\* BaseConfig.from_settings called on BaseConfig itself with no extra keyword:
\* the Config it returns, or the exception it raises.
BaseConfig_from_settings(s, tsc, tslcc) ==
    LET tl == get_token_limit(s.MODEL_ID, DictGet(s.TOKEN_LIMIT))
        co == get_chunk_overlap(s.MODEL_ID, DictGet(s.CHUNK_OVERLAP_CHARACTERS))
    IN  IF tl.err # NoError THEN [err |-> tl.err, config |-> NoConfig]
        ELSE IF co.err # NoError THEN [err |-> co.err, config |-> NoConfig]
        ELSE [err |-> NoError,
              config |-> Config("BaseConfig", co.val, s.MODEL_ID, tsc, tslcc,
                                tl.val, Absent)]

\* C7: embedding resolution refines base resolution.  When
\* BaseEmbeddingConfig.from_settings returns (no extra keyword passed), the
\* fields model_id, token_limit, chunk_overlap_characters and the two strategy
\* classes are those BaseConfig.from_settings gives for the same mapping, and
\* embedding_output_dimensions is the override converted to an integer, else
\* the registered default.  (The first conjunct ties the base resolution the
\* comparison uses to the steps of BaseConfig.from_settings.)
C7_Refines ==
    LET base == BaseConfig_from_settings(settings, text_splitter_class,
                                         text_splitter_length_calculator_class)
    IN  /\ (AtReturn /\ cls = "BaseConfig") => config = base.config
        /\ (AtRaise /\ cls = "BaseConfig" /\ keyword = Absent) => error = base.err
        /\ (AtReturn /\ cls = "BaseEmbeddingConfig" /\ keyword = Absent) =>
              /\ base.err = NoError
              /\ config.model_id = base.config.model_id
              /\ config.token_limit = base.config.token_limit
              /\ config.chunk_overlap_characters = base.config.chunk_overlap_characters
              /\ config.text_splitter_class = base.config.text_splitter_class
              /\ config.text_splitter_length_calculator_class =
                    base.config.text_splitter_length_calculator_class
              /\ config.embedding_output_dimensions =
                    IF Omitted(EmbeddingKey)
                    THEN DefaultOf(EmbeddingKey, settings.MODEL_ID)
                    ELSE PyInt(settings[EmbeddingKey]).val

\* An embedding Config resolved from an integer dimension override and a
\* token limit given as a string.
C7_Witness ==
    /\ AtReturn
    /\ cls = "BaseEmbeddingConfig"
    /\ keyword = Absent
    /\ settings[EmbeddingKey] = IntV(1)
    /\ settings.TOKEN_LIMIT = StrV(Str8000)
    /\ config.embedding_output_dimensions = IntV(1)
    /\ config.token_limit = IntV(8000)

\* A step of get_text_splitter.
TextSplitterStep == lastOp' = "get_text_splitter" /\ instances' = instances + 1

\* C8: the splitter get_text_splitter returns has chunk_size = config.token_limit,
\* chunk_overlap = config.chunk_overlap_characters, the class
\* config.text_splitter_class, and as length function get_splitter_length of a
\* newly constructed instance of config.text_splitter_length_calculator_class;
\* the call leaves the Backend's config reference and the Config unchanged, and
\* a call that follows another returns the same parameters (with another
\* calculator instance).
C8_TextSplitter ==
    /\ [](lastOp = "get_text_splitter" =>
            /\ ret.cls = config.text_splitter_class
            /\ ret.chunk_size = config.token_limit
            /\ ret.chunk_overlap = config.chunk_overlap_characters
            /\ ret.length_function.cls = config.text_splitter_length_calculator_class
            /\ ret.length_function.instance = instances
            /\ ret.length_function.method = "get_splitter_length")
    /\ [][TextSplitterStep => (config' = config /\ backend' = backend)]_vars
    /\ [][(TextSplitterStep /\ lastOp = "get_text_splitter") =>
            /\ ret'.cls = ret.cls
            /\ ret'.chunk_size = ret.chunk_size
            /\ ret'.chunk_overlap = ret.chunk_overlap
            /\ ret'.length_function.cls = ret.length_function.cls
            /\ ret'.length_function.instance # ret.length_function.instance]_vars

\* A second splitter, built from a Config whose token limit is not its chunk
\* overlap.
C8_Witness ==
    /\ lastOp = "get_text_splitter"
    /\ instances = 2
    /\ ret.length_function.instance = 2
    /\ config.token_limit = IntV(8000)
    /\ config.chunk_overlap_characters = IntV(100)
    /\ ret.chunk_size = IntV(8000)
    /\ ret.chunk_overlap = IntV(100)

\* C9 as stated: when one or more keys of the mapping are invalid, from_settings
\* raises the configuration error naming the first invalid key in the order
\* EMBEDDING_OUTPUT_DIMENSIONS, TOKEN_LIMIT, CHUNK_OVERLAP_CHARACTERS, and the
\* get_* methods of the later keys are never called.
C9_Claim ==
    (Finished /\ \E k \in Keys(cls) : Invalid(k)) =>
        /\ pc = "raised"
        /\ error.type = "ImproperlyConfigured"
        /\ error.field = FirstInvalid.key
        /\ resolved = FirstInvalid.prefix

\* What is true of C9: the get_* methods are called in the order of the
\* source, the first invalid key ends the resolution, and a configuration
\* error, when that is what is raised, names that key.
C9_Order ==
    /\ \E n \in 0..Len(Order(cls)) : resolved = SubSeq(Order(cls), 1, n)
    /\ (Finished /\ \E k \in Keys(cls) : Invalid(k)) =>
          /\ pc = "raised"
          /\ resolved = FirstInvalid.prefix
          /\ error.type = "ImproperlyConfigured" => error.field = FirstInvalid.key
    /\ (Finished /\ \A k \in Keys(cls) : ~Invalid(k)) => resolved = Order(cls)

\* C10 as stated: with embedding_output_dimensions passed as a keyword to
\* BaseEmbeddingConfig.from_settings, the Config returned stores the keyword;
\* and the call still raises a configuration error when the mapping's
\* EMBEDDING_OUTPUT_DIMENSIONS is invalid (present and not coercible to an
\* integer, or omitted for a model with no registered default).
C10_Claim ==
    (cls = "BaseEmbeddingConfig" /\ keyword # Absent) =>
        /\ AtReturn => config.embedding_output_dimensions = keyword
        /\ (Finished /\ Invalid(EmbeddingKey)) =>
              (pc = "raised" /\ error.type = "ImproperlyConfigured")

\* What is true of C10: the keyword is stored, and an invalid
\* EMBEDDING_OUTPUT_DIMENSIONS still makes the call raise.
C10_Precedence ==
    (cls = "BaseEmbeddingConfig" /\ keyword # Absent) =>
        /\ AtReturn => config.embedding_output_dimensions = keyword
        /\ (Finished /\ Invalid(EmbeddingKey)) => (pc = "raised" /\ config = NoConfig)

====
